---- MODULE Spec2Model ----
(***************************************************************************)
(* Model of snooker_ball_tracker.ball_tracker.BallTracker: colour          *)
(* detection, continuity tracking (update_balls) and the shot state        *)
(* machine driven by process_image.                                        *)
(*                                                                         *)
(* A ball (cv2.KeyPoint) is a record [pt |-> <<x, y>>, size |-> s].        *)
(* Distances are compared with the thresholds exactly, in integer          *)
(* arithmetic: dist(a, b) <= n/d  iff  4*d^2*|a-b|^2 <= n^2*(sa+sb)^2.     *)
(***************************************************************************)
EXTENDS Integers, Sequences, FiniteSets, TLC

VARIABLES
    keypoints,        \* self.__keypoints: colour -> list of balls
    last_shot,        \* self.__last_shot_snapshot
    cur_shot,         \* self.__cur_shot_snapshot
    temp,             \* self.__temp_snapshot
    image_counter,    \* self.__image_counter
    shot_in_progess,  \* self.__shot_in_progess
    white_status,     \* what logger.set_white_status last recorded
    ball_potted,      \* second component of process_image's return value
    pot_count,        \* third component of process_image's return value
    phase,            \* which branch of lines 168-172 the last call took
    started,          \* has_shot_started's result in the last call ("none": not called)
    finished,         \* has_shot_finished's result in the last call ("none": not called)
    pots,             \* the <<colour, count>> pairs lines 219-220 assigned in the last call
    call_input,       \* the arguments of the last call, where a specification of one function records them
    reported          \* the colours reported potted whose count has not changed since, where tracked

vars == <<keypoints, last_shot, cur_shot, temp, image_counter, shot_in_progess,
          white_status, ball_potted, pot_count, phase, started, finished, pots,
          call_input, reported>>

-----------------------------------------------------------------------------
(* Bounds of the model *)

\* process_image is called at most MaxFrames times
MaxFrames == 16

\* the blob detector reports at most MaxBlobs blobs per frame
MaxBlobs == 3

-----------------------------------------------------------------------------
(* Values *)

\* a missing colour in process_image's return value
None == "None"

\* a missing white ball of a snapshot (the white reference is a list of at most one ball)
NoWhite == <<>>

Ball(x) == [pt |-> <<x, 100>>, size |-> 20]

\* settings["BALL_COLOURS"]: the colours in dictionary order, with their
\* DETECT flag and ORDER
BALL_COLOURS ==
    << [name |-> "WHITE",  DETECT |-> TRUE, ORDER |-> 1],
       [name |-> "RED",    DETECT |-> TRUE, ORDER |-> 2],
       [name |-> "YELLOW", DETECT |-> TRUE, ORDER |-> 3] >>

ColourNames(settings) == [i \in 1..Len(settings) |-> settings[i].name]

ColourSet(settings) == {settings[i].name : i \in 1..Len(settings)}

\* the colours of a snapshot, in the order its colours dictionary enumerates them
SnapshotColours == <<"WHITE", "RED", "YELLOW">>

\* x coordinates at which each colour's region of the table lies
WhiteXs == {100, 102, 140}
RedXs == {104}
YellowXs == {200}
AllXs == WhiteXs \cup RedXs \cup YellowXs

\* a contour is modelled by the points strictly inside it, the points on its
\* boundary and its area
Contour(xs) == [inside |-> {<<x, 100>> : x \in xs}, edge |-> {}, area |-> Cardinality(xs)]

\* the contours get_mask_contours_for_colour finds for each colour
TableContours ==
    [c \in ColourSet(BALL_COLOURS) |->
        CASE c = "WHITE"  -> << Contour({100, 102}), Contour({140}) >>
          [] c = "RED"    -> << Contour(RedXs) >>
          [] c = "YELLOW" -> << Contour(YellowXs) >>]

\* the strictly increasing sequence of the elements of a set of integers
RECURSIVE SortedSeq(_)
SortedSeq(S) ==
    IF S = {} THEN <<>>
    ELSE LET m == CHOOSE x \in S : \A y \in S : x <= y
         IN <<m>> \o SortedSeq(S \ {m})

\* what the blob detector can report for one frame
BlobLists ==
    {[i \in 1..Len(SortedSeq(S)) |-> Ball(SortedSeq(S)[i])] :
        S \in {T \in SUBSET AllXs : Cardinality(T) <= MaxBlobs}}

\* a frame: the blobs of its binary image and the colour contours of its HSV image
Frames == {[blobs |-> b, contours |-> TableContours] : b \in BlobLists}

-----------------------------------------------------------------------------
(* Geometry: util.dist_between_two_balls and its uses *)

\* |a - b|^2, the squared Euclidean distance of the two centres
DistSquared(a, b) ==
    (a.pt[1] - b.pt[1]) * (a.pt[1] - b.pt[1]) + (a.pt[2] - b.pt[2]) * (a.pt[2] - b.pt[2])

\* dist_between_two_balls(a, b) <= th[1]/th[2], where the distance is the
\* Euclidean distance divided by the mean of the two sizes
DistAtMost(a, b, th) ==
    4 * th[2] * th[2] * DistSquared(a, b) <= th[1] * th[1] * (a.size + b.size) * (a.size + b.size)

\* the literal 0.3 of update_balls
MatchThreshold == <<3, 10>>

\* half the threshold of has_ball_moved
StoppedThreshold_half == <<1, 20>>

\* the literal 0.1 of has_ball_stopped
StoppedThreshold == <<1, 10>>

\* half the threshold of has_ball_stopped
MovedThreshold_half == <<1, 20>>

\* the literal 0.1 of has_ball_moved
MovedThreshold == <<1, 10>>

\* dist_between_two_balls(a, b) < th[1]/th[2]
DistBelow(a, b, th) ==
    4 * th[2] * th[2] * DistSquared(a, b) < th[1] * th[1] * (a.size + b.size) * (a.size + b.size)

\* has_ball_stopped with < in place of <=
has_ball_stopped_strict(first_ball, second_ball) == DistBelow(first_ball, second_ball, StoppedThreshold)

has_ball_stopped(first_ball, second_ball) == DistAtMost(first_ball, second_ball, StoppedThreshold)

\* has_ball_moved with >= in place of >
has_ball_moved_inclusive(first_ball, second_ball) == ~DistBelow(first_ball, second_ball, MovedThreshold)

has_ball_moved(first_ball, second_ball) == ~DistAtMost(first_ball, second_ball, MovedThreshold)

-----------------------------------------------------------------------------
(* SnapShot *)

\* a fresh SnapShot: no balls of any colour, no white ball
EmptySnapshot ==
    [colours |-> [c \in {SnapshotColours[i] : i \in 1..Len(SnapshotColours)} |-> <<>>],
     white |-> NoWhite]

\* snapshot.colours[colour].count
Count(snapshot, colour) == Len(snapshot.colours[colour])

\* the white ball built from a list of white keypoints: the first one, not moving
WhiteOf(balls) ==
    IF Len(balls) > 0 THEN <<[keypoint |-> balls[1], is_moving |-> FALSE]>> ELSE NoWhite

\* snapshot.assign_balls_from_dict(balls): the lists are copied by value
assign_balls_from_dict(snapshot, balls) ==
    [colours |-> [c \in DOMAIN snapshot.colours |->
                     IF c \in DOMAIN balls THEN balls[c] ELSE snapshot.colours[c]],
     white |-> IF "WHITE" \in DOMAIN balls THEN WhiteOf(balls["WHITE"]) ELSE snapshot.white]

\* snapshot.assign_balls_from_snapshot(other): a deep copy of other's state
assign_balls_from_snapshot(snapshot, other) ==
    [colours |-> other.colours, white |-> other.white]

\* snapshot.compare_ball_diff(colour, other): how many balls of the colour
\* snapshot has more than other
compare_ball_diff(snapshot, colour, other) == Count(snapshot, colour) - Count(other, colour)

-----------------------------------------------------------------------------
(* Colour detection *)

\* cv2.pointPolygonTest(contour, pt, False): 1 inside, 0 on the boundary, -1 outside
pointPolygonTest(contour, pt) ==
    IF pt \in contour.inside THEN 1 ELSE IF pt \in contour.edge THEN 0 ELSE -1

\* containment that also accepts a point on the boundary
keypoint_in_contour_inclusive(keypoint, contour) == pointPolygonTest(contour, keypoint.pt) >= 0

keypoint_in_contour(keypoint, contour) == pointPolygonTest(contour, keypoint.pt) = 1

\* max(colour_contours, key=contourArea): the first contour of the largest area
BiggestContour(colour_contours) ==
    LET i == CHOOSE i \in 1..Len(colour_contours) :
                 /\ \A j \in 1..Len(colour_contours) :
                        colour_contours[j].area <= colour_contours[i].area
                 /\ \A j \in 1..(i - 1) : colour_contours[j].area < colour_contours[i].area
    IN colour_contours[i]

\* __keypoint_is_ball: [hit |-> the return value, balls |-> balls after the call]
keypoint_is_ball(colour, colour_contours, keypoint, balls, biggest_contour) ==
    LET hit == IF Len(colour_contours) > 1 /\ biggest_contour
               THEN keypoint_in_contour(keypoint, BiggestContour(colour_contours))
               ELSE \E i \in 1..Len(colour_contours) :
                        keypoint_in_contour(keypoint, colour_contours[i])
    IN [hit |-> hit,
        balls |-> IF hit THEN [balls EXCEPT ![colour] = Append(@, keypoint)] ELSE balls]

\* sorted(names, key=ORDER): a stable insertion sort
RECURSIVE InsertByOrder(_, _, _)
InsertByOrder(sorted, entry, i) ==
    IF i > Len(sorted) THEN Append(sorted, entry)
    ELSE IF entry.ORDER < sorted[i].ORDER
         THEN SubSeq(sorted, 1, i - 1) \o <<entry>> \o SubSeq(sorted, i, Len(sorted))
         ELSE InsertByOrder(sorted, entry, i + 1)

\* the colours left in dictionary order
SortedByOrder_unsorted(settings, n) == SubSeq(settings, 1, n)

RECURSIVE SortedByOrder(_, _)
SortedByOrder(settings, n) ==
    IF n = 0 THEN <<>> ELSE InsertByOrder(SortedByOrder(settings, n - 1), settings[n], 1)

\* the inner loop without the break of line 280
RECURSIVE ScanColours_no_break(_, _, _, _, _)
ScanColours_no_break(colours, i, colour_contours, keypoint, balls) ==
    IF i > Len(colours) THEN balls
    ELSE IF colours[i].DETECT
         THEN LET r == keypoint_is_ball(colours[i].name, colour_contours[colours[i].name],
                                        keypoint, balls, FALSE)
              IN ScanColours_no_break(colours, i + 1, colour_contours, keypoint, r.balls)
         ELSE ScanColours_no_break(colours, i + 1, colour_contours, keypoint, balls)

\* the inner loop of lines 276-280: scan the colours from the i-th on for one keypoint
RECURSIVE ScanColours(_, _, _, _, _)
ScanColours(colours, i, colour_contours, keypoint, balls) ==
    IF i > Len(colours) THEN balls
    ELSE IF colours[i].DETECT
         THEN LET r == keypoint_is_ball(colours[i].name, colour_contours[colours[i].name],
                                        keypoint, balls, FALSE)
              IN IF r.hit THEN r.balls
                 ELSE ScanColours(colours, i + 1, colour_contours, keypoint, r.balls)
         ELSE ScanColours(colours, i + 1, colour_contours, keypoint, balls)

\* the outer loop of lines 275-280: the keypoints from the k-th on
RECURSIVE ScanKeypoints(_, _, _, _, _)
ScanKeypoints(blobs, k, colours, colour_contours, balls) ==
    IF k > Len(blobs) THEN balls
    ELSE ScanKeypoints(blobs, k + 1, colours, colour_contours,
                       ScanColours(colours, 1, colour_contours, blobs[k], balls))

\* colour detection that reads no DETECT flag: contours are taken for every
\* colour and every colour is scanned
perform_colour_detection_all_enabled(frame, settings) ==
    LET all == [i \in 1..Len(settings) |-> [settings[i] EXCEPT !.DETECT = TRUE]]
    IN ScanKeypoints(frame.blobs, 1, SortedByOrder(all, Len(all)),
                     [c \in ColourSet(settings) |-> frame.contours[c]],
                     [c \in ColourSet(settings) |-> <<>>])

\* perform_colour_detection for a frame under the given BALL_COLOURS settings
perform_colour_detection(frame, settings) ==
    LET balls == [c \in ColourSet(settings) |-> <<>>]
        colour_contours ==
            [c \in ColourSet(settings) |->
                IF \E i \in 1..Len(settings) : settings[i].name = c /\ settings[i].DETECT
                THEN frame.contours[c] ELSE <<>>]
        colours == SortedByOrder(settings, Len(settings))
    IN ScanKeypoints(frame.blobs, 1, colours, colour_contours, balls)

-----------------------------------------------------------------------------
(* Continuity tracking *)

\* the index of the ball of the list nearest to cur_ball among those within the
\* match threshold (the first of them if several are as near), or 0
FirstMatch_nearest(ball_list, cur_ball) ==
    IF \E i \in 1..Len(ball_list) : DistAtMost(cur_ball, ball_list[i], MatchThreshold)
    THEN CHOOSE i \in 1..Len(ball_list) :
             /\ DistAtMost(cur_ball, ball_list[i], MatchThreshold)
             /\ \A j \in 1..Len(ball_list) :
                    DistSquared(cur_ball, ball_list[i]) <= DistSquared(cur_ball, ball_list[j])
             /\ \A j \in 1..(i - 1) :
                    DistSquared(cur_ball, ball_list[i]) < DistSquared(cur_ball, ball_list[j])
    ELSE 0

\* the index of the first ball of the list within the match threshold of cur_ball, or 0
FirstMatch(ball_list, cur_ball) ==
    IF \E i \in 1..Len(ball_list) : DistAtMost(cur_ball, ball_list[i], MatchThreshold)
    THEN CHOOSE i \in 1..Len(ball_list) :
             /\ DistAtMost(cur_ball, ball_list[i], MatchThreshold)
             /\ \A j \in 1..(i - 1) : ~DistAtMost(cur_ball, ball_list[j], MatchThreshold)
    ELSE 0

\* the scan adding a cur_ball that matches no known ball to the last colour
RECURSIVE MatchBall_appending(_, _, _, _)
MatchBall_appending(balls, keys, i, cur_ball) ==
    IF i > Len(keys)
    THEN IF Len(keys) > 0 THEN [balls EXCEPT ![keys[Len(keys)]] = Append(@, cur_ball)] ELSE balls
    ELSE LET m == FirstMatch(balls[keys[i]], cur_ball)
         IN IF m > 0 THEN [balls EXCEPT ![keys[i]][m] = cur_ball]
            ELSE MatchBall_appending(balls, keys, i + 1, cur_ball)

\* lines 122-131 for one cur_ball: scan the colours of balls from the i-th key on
RECURSIVE MatchBall(_, _, _, _)
MatchBall(balls, keys, i, cur_ball) ==
    IF i > Len(keys) THEN balls
    ELSE LET m == FirstMatch(balls[keys[i]], cur_ball)
         IN IF m > 0 THEN [balls EXCEPT ![keys[i]][m] = cur_ball]
            ELSE MatchBall(balls, keys, i + 1, cur_ball)

\* the keys of a balls dictionary in insertion order
Keys(balls) ==
    SelectSeq(ColourNames(BALL_COLOURS), LAMBDA c : c \in DOMAIN balls)

\* update_balls(balls, cur_balls), from the k-th cur_ball on
RECURSIVE UpdateFrom(_, _, _)
UpdateFrom(balls, cur_balls, k) ==
    IF k > Len(cur_balls) THEN balls
    ELSE UpdateFrom(MatchBall(balls, Keys(balls), 1, cur_balls[k]), cur_balls, k + 1)

update_balls(balls, cur_balls) == UpdateFrom(balls, cur_balls, 1)

-----------------------------------------------------------------------------
(* Shot detection *)

\* has_shot_started: [result |-> the return value, status |-> the white status
\* after the call, given the white status before it]
has_shot_started(first_snapshot, second_snapshot, status) ==
    IF Count(first_snapshot, "WHITE") > 0
    THEN IF Count(first_snapshot, "WHITE") = Count(second_snapshot, "WHITE")
         THEN IF first_snapshot.white # NoWhite /\ second_snapshot.white # NoWhite
              THEN IF has_ball_moved(first_snapshot.white[1].keypoint, second_snapshot.white[1].keypoint)
                   THEN [result |-> TRUE, status |-> TRUE]
                   ELSE [result |-> FALSE, status |-> status]
              ELSE [result |-> FALSE, status |-> status]
         ELSE [result |-> FALSE, status |-> status]
    ELSE [result |-> FALSE, status |-> status]

\* has_shot_finished without the test of line 379 that temp has a white ball
has_shot_finished_unguarded(first_snapshot, second_snapshot, status) ==
    IF Count(first_snapshot, "WHITE") = Count(second_snapshot, "WHITE")
    THEN IF first_snapshot.white # NoWhite /\ second_snapshot.white # NoWhite
         THEN IF has_ball_stopped(first_snapshot.white[1].keypoint, second_snapshot.white[1].keypoint)
              THEN [result |-> TRUE, status |-> FALSE]
              ELSE [result |-> FALSE, status |-> status]
         ELSE [result |-> TRUE, status |-> status]
    ELSE [result |-> FALSE, status |-> status]

\* has_shot_finished: [result |-> the return value, status |-> the white status
\* after the call, given the white status before it]
has_shot_finished(first_snapshot, second_snapshot, status) ==
    IF Count(first_snapshot, "WHITE") > 0
    THEN IF Count(first_snapshot, "WHITE") = Count(second_snapshot, "WHITE")
         THEN IF first_snapshot.white # NoWhite /\ second_snapshot.white # NoWhite
              THEN IF has_ball_stopped(first_snapshot.white[1].keypoint, second_snapshot.white[1].keypoint)
                   THEN [result |-> TRUE, status |-> FALSE]
                   ELSE [result |-> FALSE, status |-> status]
              ELSE [result |-> TRUE, status |-> status]
         ELSE [result |-> FALSE, status |-> status]
    ELSE [result |-> FALSE, status |-> status]

\* the pot loop reporting every colour whose count changed, not only decreases
RECURSIVE PotScan_any_change(_, _, _, _)
PotScan_any_change(last, tmp, i, pot) ==
    IF i > Len(SnapshotColours) THEN pot
    ELSE LET ball_colour == SnapshotColours[i]
             count == compare_ball_diff(last, ball_colour, tmp)
         IN PotScan_any_change(last, tmp, i + 1,
                    IF ball_colour # "WHITE" /\ count # 0
                    THEN [ball_potted |-> ball_colour, pot_count |-> count]
                    ELSE pot)

\* the pot loop stopping at the first colour that decreased
RECURSIVE PotScan_first(_, _, _, _)
PotScan_first(last, tmp, i, pot) ==
    IF i > Len(SnapshotColours) THEN pot
    ELSE LET ball_colour == SnapshotColours[i]
             count == compare_ball_diff(last, ball_colour, tmp)
         IN IF ball_colour # "WHITE" /\ count > 0
            THEN [ball_potted |-> ball_colour, pot_count |-> count]
            ELSE PotScan_first(last, tmp, i + 1, pot)

\* the pot loop without the test that leaves the white ball out
RECURSIVE PotScan_with_white(_, _, _, _)
PotScan_with_white(last, tmp, i, pot) ==
    IF i > Len(SnapshotColours) THEN pot
    ELSE LET ball_colour == SnapshotColours[i]
             count == compare_ball_diff(last, ball_colour, tmp)
         IN PotScan_with_white(last, tmp, i + 1,
                    IF count > 0
                    THEN [ball_potted |-> ball_colour, pot_count |-> count]
                    ELSE pot)

\* lines 214-222: the loop over last_shot's colours from the i-th on;
\* pot is [ball_potted, pot_count] so far
RECURSIVE PotScan(_, _, _, _)
PotScan(last, tmp, i, pot) ==
    IF i > Len(SnapshotColours) THEN pot
    ELSE LET ball_colour == SnapshotColours[i]
             count == compare_ball_diff(last, ball_colour, tmp)
         IN PotScan(last, tmp, i + 1,
                    IF ball_colour # "WHITE" /\ count > 0
                    THEN [ball_potted |-> ball_colour, pot_count |-> count]
                    ELSE pot)

\* the successive assignments of lines 219-220 in that loop, in order
RECURSIVE PotAssignments(_, _, _)
PotAssignments(last, tmp, i) ==
    IF i > Len(SnapshotColours) THEN <<>>
    ELSE LET ball_colour == SnapshotColours[i]
             count == compare_ball_diff(last, ball_colour, tmp)
         IN (IF ball_colour # "WHITE" /\ count > 0 THEN << <<ball_colour, count>> >> ELSE <<>>)
            \o PotAssignments(last, tmp, i + 1)

\* the test of line 168 counting from one
DetectionFrame_off_by_one(counter) == counter = 0 \/ (counter + 1) % 5 = 0

\* the test of line 168: the frames on which colour detection runs
DetectionFrame(counter) == counter = 0 \/ counter % 5 = 0

\* the snapshots compared on every frame
SamplingTick_always(counter) == TRUE

\* the snapshots compared on every fifth frame but not on the first
SamplingTick_not_first(counter) == counter # 0 /\ counter % 5 = 0

\* the test of line 204: the frames on which the snapshots are compared
SamplingTick(counter) == counter = 0 \/ counter % 5 = 0

\* last_shot taken from temp instead of current_shot
FinalizeLastShot_from_temp(last, cur, tmp) == assign_balls_from_snapshot(last, tmp)

\* line 227: what last_shot becomes when a shot has finished
FinalizeLastShot(last, cur, tmp) == assign_balls_from_snapshot(last, cur)

\* lines 230-231: the moving flag of temp's white is copied to current_shot's white
PropagateMoving(cur, tmp) ==
    IF cur.white # NoWhite /\ tmp.white # NoWhite
    THEN [cur EXCEPT !.white[1].is_moving = tmp.white[1].is_moving]
    ELSE cur

\* current_shot left as it is
EndOfTick_skipped(cur, tmp) == cur

\* line 232: what current_shot becomes at the end of a sampling tick
EndOfTick(cur, tmp) == assign_balls_from_snapshot(cur, tmp)

-----------------------------------------------------------------------------
(* process_image *)

\* how the result of a call made or not made in process_image is recorded
Outcome(called, result) == IF ~called THEN "none" ELSE IF result THEN "true" ELSE "false"

process_image(frame) ==
    /\ LET detect == DetectionFrame(image_counter)
           tick == SamplingTick(image_counter)
           \* lines 168-172
           kp == IF detect THEN perform_colour_detection(frame, BALL_COLOURS)
                 ELSE update_balls(keypoints, frame.blobs)
           \* lines 174-176
           cur0 == IF image_counter = 0 THEN assign_balls_from_dict(cur_shot, kp) ELSE cur_shot
           last0 == IF image_counter = 0 THEN assign_balls_from_dict(last_shot, kp) ELSE last_shot
           \* line 207
           tmp1 == assign_balls_from_dict(temp, kp)
           \* lines 209-210
           st == IF ~shot_in_progess THEN has_shot_started(tmp1, cur0, white_status)
                 ELSE [result |-> FALSE, status |-> white_status]
           sip1 == IF ~shot_in_progess THEN st.result ELSE shot_in_progess
           \* lines 212-213
           fin == IF sip1 THEN has_shot_finished(tmp1, cur0, st.status)
                  ELSE [result |-> FALSE, status |-> st.status]
           done == sip1 /\ fin.result
           \* lines 214-222
           pot == IF done
                  THEN PotScan(last0, tmp1, 1, [ball_potted |-> None, pot_count |-> 0])
                  ELSE [ball_potted |-> None, pot_count |-> 0]
           \* lines 230-231
           cur1 == IF sip1 THEN PropagateMoving(cur0, tmp1) ELSE cur0
       IN /\ keypoints' = kp
          /\ phase' = IF detect THEN "detect" ELSE "update"
          /\ image_counter' = image_counter + 1
          /\ IF tick
             THEN /\ temp' = tmp1
                  /\ started' = Outcome(~shot_in_progess, st.result)
                  /\ finished' = Outcome(sip1, fin.result)
                  /\ white_status' = fin.status
                  /\ last_shot' = IF done THEN FinalizeLastShot(last0, cur0, tmp1) ELSE last0
                  /\ shot_in_progess' = IF done THEN FALSE ELSE sip1
                  /\ cur_shot' = EndOfTick(cur1, tmp1)
                  /\ ball_potted' = pot.ball_potted
                  /\ pot_count' = pot.pot_count
                  /\ pots' = IF done THEN PotAssignments(last0, tmp1, 1) ELSE <<>>
             ELSE /\ temp' = temp
                  /\ started' = "none"
                  /\ finished' = "none"
                  /\ white_status' = white_status
                  /\ last_shot' = last0
                  /\ shot_in_progess' = shot_in_progess
                  /\ cur_shot' = cur0
                  /\ ball_potted' = None
                  /\ pot_count' = 0
                  /\ pots' = <<>>

-----------------------------------------------------------------------------
(* The tracker *)

\* the state after BallTracker.__init__
Init ==
    /\ keypoints = <<>>
    /\ last_shot = EmptySnapshot
    /\ cur_shot = EmptySnapshot
    /\ temp = EmptySnapshot
    /\ image_counter = 0
    /\ shot_in_progess = FALSE
    /\ white_status = FALSE
    /\ ball_potted = None
    /\ pot_count = 0
    /\ phase = "none"
    /\ started = "none"
    /\ finished = "none"
    /\ pots = <<>>
    /\ call_input = <<>>
    /\ reported = {}

Next ==
    \E frame \in Frames :
        /\ image_counter < MaxFrames
        /\ process_image(frame)
        /\ UNCHANGED <<call_input, reported>>

Spec == Init /\ [][Next]_vars

-----------------------------------------------------------------------------
(* Vocabulary of the properties *)

\* the call about to be made has a 0-based index that is a multiple of 5
OnTick == image_counter % 5 = 0

\* current_shot as has_shot_started and has_shot_finished see it in the call
\* being made: on the first call it has just been assigned the detected balls
CurAtCall ==
    IF image_counter = 0 THEN assign_balls_from_dict(cur_shot, keypoints') ELSE cur_shot

\* last_shot as the pot loop sees it in the call being made
LastAtCall ==
    IF image_counter = 0 THEN assign_balls_from_dict(last_shot, keypoints') ELSE last_shot

WhiteCount(snapshot) == Len(snapshot.colours["WHITE"])

HasWhite(snapshot) == snapshot.white # NoWhite

\* ten times the distance of the two balls exceeds the mean of their sizes
FartherThanTenth(a, b) ==
    400 * ((a.pt[1] - b.pt[1]) * (a.pt[1] - b.pt[1]) + (a.pt[2] - b.pt[2]) * (a.pt[2] - b.pt[2]))
        > (a.size + b.size) * (a.size + b.size)

WhiteFartherThanTenth(s1, s2) == FartherThanTenth(s1.white[1].keypoint, s2.white[1].keypoint)

-----------------------------------------------------------------------------
(* C1 *)

StartCondition(tmp, cur) ==
    /\ WhiteCount(tmp) # 0
    /\ WhiteCount(tmp) = WhiteCount(cur)
    /\ HasWhite(tmp) /\ HasWhite(cur)
    /\ WhiteFartherThanTenth(tmp, cur)

\* C1: on a sampling tick in state IDLE, has_shot_started(temp, current_shot)
\* is true, and the state becomes IN_SHOT with white marked moving, if and only
\* if the WHITE count is nonzero and equal in temp and current_shot, both have
\* a white ball and the white balls are more than 0.1 apart; it is false
\* whenever the WHITE count is 0 in either snapshot.
C1_ShotStartsIff ==
    [][(OnTick /\ ~shot_in_progess) =>
          /\ (started' = "true") <=> StartCondition(temp', CurAtCall)
          /\ (shot_in_progess' /\ white_status') <=> StartCondition(temp', CurAtCall)
          /\ shot_in_progess' <=> StartCondition(temp', CurAtCall)
          /\ (WhiteCount(temp') = 0 \/ WhiteCount(CurAtCall) = 0) => started' = "false"]_vars

\* a shot has just started with the white seen at x = 140
C1_Witness ==
    /\ started = "true" /\ shot_in_progess /\ white_status
    /\ temp.white[1].keypoint.pt = <<140, 100>>

-----------------------------------------------------------------------------
(* C2 *)

FinishConditionAsClaimed(tmp, cur) ==
    /\ WhiteCount(tmp) = WhiteCount(cur)
    /\ \/ HasWhite(tmp) /\ HasWhite(cur) /\ ~WhiteFartherThanTenth(tmp, cur)
       \/ ~HasWhite(tmp) \/ ~HasWhite(cur)

FinishCondition(tmp, cur) ==
    /\ WhiteCount(tmp) # 0
    /\ FinishConditionAsClaimed(tmp, cur)

\* C2 as stated: has_shot_finished(temp, current_shot) is true iff the white
\* count matches in both snapshots and either the white is stopped (white is
\* then marked stopped) or the white is absent from one of the snapshots; when
\* it is true the state returns to IDLE on that tick.
C2_FinishIffAsClaimed ==
    [][finished' # "none" =>
          /\ (finished' = "true") <=> FinishConditionAsClaimed(temp', CurAtCall)
          /\ finished' = "true" => ~shot_in_progess']_vars

\* C2 amended: has_shot_finished(temp, current_shot) is true iff the white
\* count is nonzero in temp, matches in both snapshots, and either the white is
\* stopped (white is then marked stopped) or the white is absent from one of the
\* snapshots; when it is true the state returns to IDLE on that tick.
C2_FinishIff ==
    [][finished' # "none" =>
          /\ (finished' = "true") <=> FinishCondition(temp', CurAtCall)
          /\ (finished' = "true" /\ HasWhite(temp') /\ HasWhite(CurAtCall)) => ~white_status'
          /\ finished' = "true" => ~shot_in_progess']_vars

\* a shot has just finished with the white exactly 0.1 away from where it was
C2_Witness ==
    /\ finished = "true" /\ ~shot_in_progess /\ ~white_status
    /\ started = "none"
    /\ temp.white[1].keypoint.pt = <<102, 100>>

-----------------------------------------------------------------------------
(* C3 *)

\* C3: has_shot_finished(temp, current_shot) returns true when the white ball
\* is present in current_shot but absent in temp, regardless of any positions.
C3_FinishedWhenWhiteLost ==
    [][(finished' # "none" /\ HasWhite(CurAtCall) /\ ~HasWhite(temp')) =>
          finished' = "true"]_vars

-----------------------------------------------------------------------------
(* C4 *)

\* C4 as stated: on any sampling tick where the WHITE count in temp is zero,
\* has_shot_started and has_shot_finished both return false, the shot state is
\* the same after the tick as before it, last_shot is not overwritten and no
\* pot is reported.
C4_NoWhiteFreezesAsClaimed ==
    [][(OnTick /\ WhiteCount(temp') = 0) =>
          /\ started' # "true" /\ finished' # "true"
          /\ shot_in_progess' = shot_in_progess
          /\ last_shot' = last_shot
          /\ ball_potted' = None /\ pot_count' = 0]_vars

\* C4 amended: on any sampling tick where the WHITE count in temp is zero,
\* has_shot_started and has_shot_finished both return false, the shot state is
\* the same after the tick as before it, last_shot is not overwritten except by
\* the first call (which assigns it the detected balls) and no pot is reported.
C4_NoWhiteFreezes ==
    [][(OnTick /\ WhiteCount(temp') = 0) =>
          /\ started' # "true" /\ finished' # "true"
          /\ shot_in_progess' = shot_in_progess
          /\ image_counter # 0 => last_shot' = last_shot
          /\ image_counter = 0 => last_shot' = LastAtCall
          /\ ball_potted' = None /\ pot_count' = 0]_vars

\* a tick during a shot on which no white ball is seen: has_shot_finished was
\* called and returned false, and the shot is still in progress
C4_Witness ==
    /\ phase = "detect" /\ image_counter > 1
    /\ WhiteCount(temp) = 0
    /\ shot_in_progess /\ finished = "false"

-----------------------------------------------------------------------------
(* C5 *)

NonWhite == {SnapshotColours[i] : i \in 1..Len(SnapshotColours)} \ {"WHITE"}

\* by how many balls of the colour snapshot "to" is short of snapshot "from"
Decrease(from, to, colour) == Len(from.colours[colour]) - Len(to.colours[colour])

\* the non-white colours with fewer balls in "to" than in "from"
Decreased(from, to) == {c \in NonWhite : Decrease(from, to, c) > 0}

\* C5: on a sampling tick where a shot finishes and exactly one non-white
\* colour C has a count in temp lower by k > 0 than its count in last_shot (as
\* it was before the tick), process_image returns potted colour C and pot count k.
C5_SinglePotReported ==
    [][finished' = "true" =>
          \A c \in NonWhite :
              Decreased(last_shot, temp') = {c} =>
                  /\ ball_potted' = c
                  /\ pot_count' = Decrease(last_shot, temp', c)
                  /\ pot_count' > 0]_vars

\* a shot has just finished and the one red ball of last_shot is gone
C5_Witness ==
    /\ finished = "true"
    /\ pots = << <<"RED", 1>> >>
    /\ ball_potted = "RED" /\ pot_count = 1
    /\ Len(temp.colours["RED"]) = 0

-----------------------------------------------------------------------------
(* C6 *)

\* the colour of the set that last_shot's colours enumerate last
LastEnumerated(S) ==
    SnapshotColours[CHOOSE i \in 1..Len(SnapshotColours) :
                        /\ SnapshotColours[i] \in S
                        /\ \A j \in (i + 1)..Len(SnapshotColours) : SnapshotColours[j] \notin S]

\* C6: when a shot finishes on a tick where several non-white colours each
\* decreased from last_shot to temp, the one pot returned is that of the last
\* such colour in last_shot's enumeration order, with that colour's decrease.
C6_LastDecreaseReported ==
    [][(finished' = "true" /\ Cardinality(Decreased(last_shot, temp')) >= 2) =>
          /\ ball_potted' = LastEnumerated(Decreased(last_shot, temp'))
          /\ pot_count' = Decrease(last_shot, temp', ball_potted')]_vars

\* a shot has just finished with both a red and a yellow ball gone
C6_Witness ==
    /\ finished = "true"
    /\ pots = << <<"RED", 1>>, <<"YELLOW", 1>> >>
    /\ ball_potted = "YELLOW" /\ pot_count = 1

-----------------------------------------------------------------------------
(* C7 *)

\* C7: on a sampling tick where a shot finishes, last_shot is overwritten with
\* current_shot's state as it was at the start of that tick and the state is
\* IDLE after the tick; last_shot is not overwritten on any call after the
\* first where no shot finishes.
C7_LastShotFromCurrent ==
    [][/\ finished' = "true" => (last_shot' = cur_shot /\ ~shot_in_progess')
       /\ (finished' # "true" /\ image_counter # 0) => last_shot' = last_shot]_vars

\* a shot has just finished and last_shot differs from what temp holds
C7_Witness ==
    /\ finished = "true" /\ ~shot_in_progess
    /\ last_shot.colours # temp.colours
    /\ last_shot.white # NoWhite

-----------------------------------------------------------------------------
(* C8 *)

\* C8: at the end of every sampling tick current_shot has been overwritten
\* from temp: for every colour the ball-count diff between current_shot and
\* temp is zero and their ball positions are equal.
C8_CurrentIsTemp ==
    (image_counter > 0 /\ (image_counter - 1) % 5 = 0) =>
        /\ \A c \in DOMAIN cur_shot.colours :
               /\ compare_ball_diff(cur_shot, c, temp) = 0
               /\ Len(cur_shot.colours[c]) = Len(temp.colours[c])
               /\ cur_shot.colours[c] = temp.colours[c]
        /\ cur_shot.white = temp.white

\* a tick has just ended in the middle of a shot, with balls on the table
C8_Witness ==
    /\ image_counter > 1 /\ (image_counter - 1) % 5 = 0
    /\ shot_in_progess /\ finished = "false"
    /\ Len(temp.colours["WHITE"]) > 0 /\ Len(temp.colours["RED"]) > 0

-----------------------------------------------------------------------------
(* C9 *)

\* every ball of the set lies strictly inside a contour of its own colour, as
\* after a colour detection
FreshlyDetected(balls) ==
    /\ DOMAIN balls = ColourSet(BALL_COLOURS)
    /\ \A c \in DOMAIN balls : \A i \in 1..Len(balls[c]) :
           \E k \in 1..Len(TableContours[c]) : balls[c][i].pt \in TableContours[c][k].inside

\* the two sets have the same colours and as many balls of each
SameShape(b1, b2) ==
    /\ DOMAIN b1 = DOMAIN b2
    /\ \A c \in DOMAIN b1 : Len(b1[c]) = Len(b2[c])

\* C9: colour detection runs exactly on the calls whose 0-based index is a
\* multiple of 5, including the first, and replaces the working ball set; every
\* other call only runs update_balls on the existing working ball set; the
\* frame counter increases by exactly one per call.
C9_DetectionEveryFifth ==
    [][/\ image_counter' = image_counter + 1
       /\ (phase' = "detect") <=> (image_counter % 5 = 0)
       /\ (phase' = "update") <=> (image_counter % 5 # 0)
       /\ phase' = "detect" => FreshlyDetected(keypoints')
       /\ phase' = "update" => SameShape(keypoints', keypoints)]_vars

\* the call of index 10 has run colour detection and found a white ball
C9_Witness ==
    /\ image_counter = 11 /\ phase = "detect"
    /\ Len(keypoints["WHITE"]) > 0

-----------------------------------------------------------------------------
(* C10 *)

\* C10: a process_image call that is not a sampling tick leaves the shot state
\* and the three snapshots unchanged, although update_balls changes the working
\* ball set, and returns no potted colour and pot count 0.
C10_OffTickCallsChangeNothing ==
    [][image_counter % 5 # 0 =>
          /\ shot_in_progess' = shot_in_progess
          /\ last_shot' = last_shot
          /\ cur_shot' = cur_shot
          /\ temp' = temp
          /\ ball_potted' = None /\ pot_count' = 0]_vars

\* update_balls has moved the white ball of the working set away from where
\* the snapshots have it, during a shot
C10_Witness ==
    /\ phase = "update" /\ shot_in_progess
    /\ Len(keypoints["WHITE"]) > 0
    /\ keypoints["WHITE"] # temp.colours["WHITE"]
    /\ keypoints["WHITE"] # cur_shot.colours["WHITE"]

-----------------------------------------------------------------------------
(* update_balls on its own: any known ball set, any list of observed blobs *)

\* the known ball sets hold at most MaxKnown balls
MaxKnown == 2

\* update_balls and perform_colour_detection, each on its own, are given at
\* most MaxObserved blobs
MaxObserved == 2

\* x coordinates of the balls and blobs: 100, 104 and 106 are within 0.3 of
\* one another (100 and 106 exactly 0.3 apart), 112 is within 0.3 of 106 only
UpdateXs == {100, 104, 106, 112}

\* the lists of at most n balls at the given x coordinates
BallSeqs(xs, n) == UNION {[1..k -> {Ball(x) : x \in xs}] : k \in 0..n}

\* the number of balls of a ball set
RECURSIVE TotalBalls(_, _)
TotalBalls(balls, cs) ==
    IF cs = {} THEN 0
    ELSE LET c == CHOOSE c \in cs : TRUE
         IN Len(balls[c]) + TotalBalls(balls, cs \ {c})

\* the ball sets update_balls may be given: as perform_colour_detection builds
\* them, with every colour of BALL_COLOURS as a key
KnownSets ==
    {b \in [ColourSet(BALL_COLOURS) -> BallSeqs(UpdateXs, MaxKnown)] :
        TotalBalls(b, DOMAIN b) <= MaxKnown}

\* the blob lists update_balls may be given
ObservedLists == BallSeqs(UpdateXs, MaxObserved)

InitUpdate ==
    /\ keypoints \in KnownSets
    /\ last_shot = EmptySnapshot
    /\ cur_shot = EmptySnapshot
    /\ temp = EmptySnapshot
    /\ image_counter = 0
    /\ shot_in_progess = FALSE
    /\ white_status = FALSE
    /\ ball_potted = None
    /\ pot_count = 0
    /\ phase = "none"
    /\ started = "none"
    /\ finished = "none"
    /\ pots = <<>>
    /\ call_input = <<>>
    /\ reported = {}

\* one call update_balls(self.__keypoints, cur_balls), as at line 172
update_balls_call(cur_balls) ==
    /\ keypoints' = update_balls(keypoints, cur_balls)
    /\ call_input' = [balls |-> keypoints, cur_balls |-> cur_balls]
    /\ phase' = "update"
    /\ UNCHANGED <<last_shot, cur_shot, temp, image_counter, shot_in_progess, white_status,
                   ball_potted, pot_count, started, finished, pots, reported>>

NextUpdate == \E cur_balls \in ObservedLists : update_balls_call(cur_balls)

SpecUpdate == InitUpdate /\ [][NextUpdate]_vars

-----------------------------------------------------------------------------
(* C11 *)

\* the two balls are more than 0.3 apart, in units of the mean of their sizes
FartherThanThreeTenths(a, b) ==
    400 * ((a.pt[1] - b.pt[1]) * (a.pt[1] - b.pt[1]) + (a.pt[2] - b.pt[2]) * (a.pt[2] - b.pt[2]))
        > 9 * (a.size + b.size) * (a.size + b.size)

\* the balls of a ball set, of whatever colour
BallsOf(balls) == UNION {{balls[c][i] : i \in 1..Len(balls[c])} : c \in DOMAIN balls}

\* the k-th blob is more than 0.3 away from every known ball and every other blob
LoneBlob(balls, cur_balls, k) ==
    /\ \A b \in BallsOf(balls) : FartherThanThreeTenths(cur_balls[k], b)
    /\ \A j \in 1..Len(cur_balls) : j # k => FartherThanThreeTenths(cur_balls[k], cur_balls[j])

\* C11: update_balls never changes the colour keys of the known set nor the
\* length of any colour's list; every slot holds its old ball or an observed
\* blob; an observed blob that matches no known ball is dropped, and a known
\* ball matched by no observed blob keeps its position.
C11_UpdateKeepsShape ==
    phase = "update" =>
        LET known == call_input.balls
            observed == call_input.cur_balls
        IN /\ SameShape(keypoints, known)
           /\ \A c \in DOMAIN known : \A i \in 1..Len(known[c]) :
                  /\ \/ keypoints[c][i] = known[c][i]
                     \/ \E k \in 1..Len(observed) : keypoints[c][i] = observed[k]
                  /\ (\A k \in 1..Len(observed) : FartherThanThreeTenths(observed[k], known[c][i]))
                        => keypoints[c][i] = known[c][i]
           /\ \A k \in 1..Len(observed) :
                  LoneBlob(known, observed, k) => observed[k] \notin BallsOf(keypoints)

\* of two observed blobs the first has replaced the one known ball and the
\* second, near no ball, is in no list
C11_Witness ==
    /\ phase = "update"
    /\ call_input.balls["WHITE"] = <<Ball(100)>>
    /\ call_input.balls["RED"] = <<>> /\ call_input.balls["YELLOW"] = <<>>
    /\ call_input.cur_balls = <<Ball(104), Ball(112)>>
    /\ keypoints["WHITE"] = <<Ball(104)>>
    /\ keypoints["RED"] = <<>> /\ keypoints["YELLOW"] = <<>>

-----------------------------------------------------------------------------
(* C12 *)

\* the slots <<colour, index>> of a ball set in scanning order: the colours in
\* insertion order from the n-th on, the balls of each in list order
RECURSIVE Slots(_, _)
Slots(balls, n) ==
    IF n > Len(BALL_COLOURS) THEN <<>>
    ELSE [i \in 1..Len(balls[BALL_COLOURS[n].name]) |-> <<BALL_COLOURS[n].name, i>>]
         \o Slots(balls, n + 1)

\* the ball set after one blob has been matched against it: the blob takes the
\* first slot in scanning order whose ball is within 0.3 of it, if there is one
AfterOneBlob(balls, blob) ==
    LET slots == Slots(balls, 1)
        near == {n \in 1..Len(slots) :
                    ~FartherThanThreeTenths(blob, balls[slots[n][1]][slots[n][2]])}
    IN IF near = {} THEN balls
       ELSE LET n == CHOOSE n \in near : \A m \in near : n <= m
            IN [balls EXCEPT ![slots[n][1]][slots[n][2]] = blob]

\* the ball set after the blobs from the k-th on have been matched in list order
RECURSIVE AfterBlobs(_, _, _)
AfterBlobs(balls, blobs, k) ==
    IF k > Len(blobs) THEN balls
    ELSE AfterBlobs(AfterOneBlob(balls, blobs[k]), blobs, k + 1)

\* C12: each observed blob, in list order, overwrites at most one known ball:
\* the first one, scanning colours in insertion order and balls in list order,
\* within 0.3 of the blob, measured against the known set as already updated
\* by the earlier blobs; the ball keeps its colour and list slot; the match is
\* the first within the threshold, not the nearest.
C12_FirstMatchWins ==
    phase = "update" =>
        keypoints = AfterBlobs(call_input.balls, call_input.cur_balls, 1)

\* the blob at 106 took the slot of the red ball at 100, the first within 0.3,
\* and not that of the nearer red ball at 104; the blob at 112 then took the
\* same slot, being within 0.3 of 106 though not of 100
C12_Witness ==
    /\ phase = "update"
    /\ call_input.balls["RED"] = <<Ball(100), Ball(104)>>
    /\ call_input.cur_balls = <<Ball(106), Ball(112)>>
    /\ keypoints["RED"] = <<Ball(112), Ball(104)>>

-----------------------------------------------------------------------------
(* perform_colour_detection on its own: any blobs, any contours, any settings *)

\* the two points at which blobs are detected
DetectXs == {100, 140}

\* a contour with the given x coordinates strictly inside it and on its boundary
Region(ins, edg) ==
    [inside |-> {<<x, 100>> : x \in ins}, edge |-> {<<x, 100>> : x \in edg},
     area |-> Cardinality(ins)]

\* the contour lists a colour may have: none, one contour around the first
\* point, one around the second with the first on its boundary, and two
\* overlapping contours, one around the first point and one around both
ContourChoices ==
    { <<>>,
      << Region({100}, {}) >>,
      << Region({140}, {100}) >>,
      << Region({100}, {}), Region({100, 140}, {}) >> }

\* the frames given to colour detection: at most MaxObserved blobs, in any
\* order, and any choice of contours for each colour, overlapping or not
DetectFrames ==
    {[blobs |-> b, contours |-> cc] :
        b \in BallSeqs(DetectXs, MaxObserved),
        cc \in [ColourSet(BALL_COLOURS) -> ContourChoices]}

\* the BALL_COLOURS settings: the colours in dictionary order, any DETECT
\* flags, the ORDER values any arrangement of 1..n
SettingsChoices ==
    LET n == Len(BALL_COLOURS)
    IN {[i \in 1..n |-> [name |-> BALL_COLOURS[i].name, DETECT |-> d[i], ORDER |-> o[i]]] :
           d \in [1..n -> BOOLEAN],
           o \in {f \in [1..n -> 1..n] : \A i, j \in 1..n : i # j => f[i] # f[j]}}

\* the first call self.perform_colour_detection(binary_frame, hsv_frame), as at line 169
perform_colour_detection_call(frame, settings) ==
    /\ phase = "none"
    /\ keypoints' = perform_colour_detection(frame, settings)
    /\ call_input' = [frame |-> frame, settings |-> settings]
    /\ phase' = "detect"
    /\ UNCHANGED <<last_shot, cur_shot, temp, image_counter, shot_in_progess, white_status,
                   ball_potted, pot_count, started, finished, pots, reported>>

NextDetect ==
    \E frame \in DetectFrames, settings \in SettingsChoices :
        perform_colour_detection_call(frame, settings)

SpecDetect == Init /\ [][NextDetect]_vars

-----------------------------------------------------------------------------
(* Vocabulary of the properties of colour detection *)

\* the colour has its DETECT flag on
Enabled(settings, c) == \E i \in 1..Len(settings) : settings[i].name = c /\ settings[i].DETECT

OrderOf(settings, c) == settings[CHOOSE i \in 1..Len(settings) : settings[i].name = c].ORDER

\* the blob's centre is strictly inside one of the colour's contours
StrictlyInside(frame, c, b) ==
    \E k \in 1..Len(frame.contours[c]) : b.pt \in frame.contours[c][k].inside

\* the blob's centre is on the boundary of one of the colour's contours
OnBoundary(frame, c, b) ==
    \E k \in 1..Len(frame.contours[c]) : b.pt \in frame.contours[c][k].edge

\* the enabled colours whose region contains the blob
Candidates(frame, settings, b) ==
    {c \in ColourSet(settings) : Enabled(settings, c) /\ StrictlyInside(frame, c, b)}

\* how many elements of the list equal v
Occurrences(list, v) == Cardinality({i \in 1..Len(list) : list[i] = v})

\* how many times v occurs in the lists of the given colours of a ball set
RECURSIVE OccurrencesIn(_, _, _)
OccurrencesIn(balls, cs, v) ==
    IF cs = {} THEN 0
    ELSE LET c == CHOOSE c \in cs : TRUE
         IN Occurrences(balls[c], v) + OccurrencesIn(balls, cs \ {c}, v)

-----------------------------------------------------------------------------
(* C13 *)

\* C13: for any blobs and any colour regions, overlapping ones included,
\* perform_colour_detection puts each blob into at most one colour's list and
\* at most once, so that no more blobs are assigned than were detected; a blob
\* inside no enabled colour's region appears in no list.
C13_EachBlobAtMostOnce ==
    phase = "detect" =>
        LET frame == call_input.frame
            settings == call_input.settings
        IN /\ \A b \in BallsOf(keypoints) :
                  OccurrencesIn(keypoints, DOMAIN keypoints, b) <= Occurrences(frame.blobs, b)
           /\ TotalBalls(keypoints, DOMAIN keypoints) <= Len(frame.blobs)
           /\ \A k \in 1..Len(frame.blobs) :
                  Candidates(frame, settings, frame.blobs[k]) = {}
                      => frame.blobs[k] \notin BallsOf(keypoints)

\* two blobs inside the regions of white and of red, both enabled, the first
\* blob inside two contours of each colour: two balls are assigned in all
C13_Witness ==
    /\ phase = "detect"
    /\ call_input.frame.blobs = <<Ball(100), Ball(140)>>
    /\ call_input.frame.contours["WHITE"] = << Region({100}, {}), Region({100, 140}, {}) >>
    /\ call_input.frame.contours["RED"] = << Region({100}, {}), Region({100, 140}, {}) >>
    /\ Enabled(call_input.settings, "WHITE") /\ Enabled(call_input.settings, "RED")
    /\ TotalBalls(keypoints, DOMAIN keypoints) = 2

-----------------------------------------------------------------------------
(* C14 *)

\* C14: a colour whose DETECT flag is off gets no ball from
\* perform_colour_detection, whatever the blobs and its contours are: its key
\* is in the result and its list is empty.
C14_DisabledColourEmpty ==
    phase = "detect" =>
        \A i \in 1..Len(call_input.settings) :
            ~call_input.settings[i].DETECT =>
                /\ call_input.settings[i].name \in DOMAIN keypoints
                /\ keypoints[call_input.settings[i].name] = <<>>

\* white is disabled, a blob lies inside the white region and inside no other
\* region: the white list is empty
C14_Witness ==
    /\ phase = "detect"
    /\ ~Enabled(call_input.settings, "WHITE")
    /\ Ball(100) \in BallsOf([c \in {"blobs"} |-> call_input.frame.blobs])
    /\ StrictlyInside(call_input.frame, "WHITE", Ball(100))
    /\ Candidates(call_input.frame, call_input.settings, Ball(100)) = {}
    /\ keypoints["WHITE"] = <<>>

-----------------------------------------------------------------------------
(* C15 *)

\* the candidate colour with the smallest ORDER
FirstByOrder(settings, cs) ==
    CHOOSE c \in cs : \A d \in cs : OrderOf(settings, c) <= OrderOf(settings, d)

\* the blob is given to colour c: c is the candidate with the smallest ORDER
GivenTo(frame, settings, c, b) ==
    /\ Candidates(frame, settings, b) # {}
    /\ c = FirstByOrder(settings, Candidates(frame, settings, b))

\* the blobs given to colour c, in the order of detection
RECURSIVE BlobsGivenTo(_, _, _, _)
BlobsGivenTo(frame, settings, c, k) ==
    IF k > Len(frame.blobs) THEN <<>>
    ELSE IF GivenTo(frame, settings, c, frame.blobs[k])
         THEN <<frame.blobs[k]>> \o BlobsGivenTo(frame, settings, c, k + 1)
         ELSE BlobsGivenTo(frame, settings, c, k + 1)

\* C15: a blob inside the regions of several enabled colours goes to the one
\* with the smallest ORDER, wherever that colour stands in the settings: each
\* colour's list is exactly the blobs for which it is the enabled containing
\* colour of smallest ORDER.
C15_SmallestOrderWins ==
    phase = "detect" =>
        \A c \in DOMAIN keypoints :
            keypoints[c] = BlobsGivenTo(call_input.frame, call_input.settings, c, 1)

\* a blob inside the white and the red region, both enabled, red having the
\* smaller ORDER although white comes first in the settings: the blob is red
C15_Witness ==
    /\ phase = "detect"
    /\ call_input.frame.blobs = <<Ball(100)>>
    /\ Candidates(call_input.frame, call_input.settings, Ball(100)) = {"WHITE", "RED"}
    /\ OrderOf(call_input.settings, "RED") < OrderOf(call_input.settings, "WHITE")
    /\ keypoints["RED"] = <<Ball(100)>>
    /\ keypoints["WHITE"] = <<>>

-----------------------------------------------------------------------------
(* C16 *)

\* C16: a blob whose centre is on the boundary of a colour's contour and
\* strictly inside none of that colour's contours is not assigned to that
\* colour.
C16_BoundaryIsOutside ==
    phase = "detect" =>
        \A c \in DOMAIN keypoints : \A k \in 1..Len(call_input.frame.blobs) :
            LET b == call_input.frame.blobs[k]
            IN (OnBoundary(call_input.frame, c, b) /\ ~StrictlyInside(call_input.frame, c, b))
                   => b \notin BallsOf([d \in {c} |-> keypoints[c]])

\* the only region is white's, enabled, with the blob on its boundary: no
\* ball is assigned
C16_Witness ==
    /\ phase = "detect"
    /\ call_input.frame.blobs = <<Ball(100)>>
    /\ Enabled(call_input.settings, "WHITE")
    /\ call_input.frame.contours["WHITE"] = << Region({140}, {100}) >>
    /\ call_input.frame.contours["RED"] = <<>>
    /\ call_input.frame.contours["YELLOW"] = <<>>
    /\ TotalBalls(keypoints, DOMAIN keypoints) = 0

-----------------------------------------------------------------------------
(* C17 *)

\* C17: in every reachable state the working ball set holds at most one WHITE
\* ball, also when several detected blobs lie inside the white colour region.
C17_AtMostOneWhite ==
    "WHITE" \in DOMAIN keypoints => Len(keypoints["WHITE"]) <= 1

-----------------------------------------------------------------------------
(* C18 *)

\* C18: process_image returns a potted colour only on a sampling tick on which
\* a shot that was in progress finishes; on every other call it returns
\* (None, 0). The returned colour is never WHITE, the pot count is positive
\* exactly when a colour is returned, and a colour whose count in temp is not
\* lower than in last_shot is never returned.
C18_PotOnlyOnFinish ==
    [][/\ ball_potted' # None =>
              /\ OnTick
              /\ finished' = "true"
              /\ shot_in_progess /\ ~shot_in_progess'
       /\ finished' # "true" => (ball_potted' = None /\ pot_count' = 0)
       /\ ball_potted' # "WHITE"
       /\ pot_count' > 0 <=> ball_potted' # None
       /\ \A i \in 1..Len(SnapshotColours) :
              Decrease(LastAtCall, temp', SnapshotColours[i]) <= 0
                  => ball_potted' # SnapshotColours[i]]_vars

\* the call just made was a sampling tick on which the shot in progress
\* finished, with the white ball still there: red is returned with count 1 and
\* no shot is in progress any more
C18_Witness ==
    /\ image_counter % 5 = 1
    /\ finished = "true"
    /\ ~shot_in_progess
    /\ ball_potted = "RED" /\ pot_count = 1
    /\ Len(temp.colours["WHITE"]) = 1

-----------------------------------------------------------------------------
(* C20 *)

\* C20: a shot never starts and finishes on the same sampling tick.
\* has_ball_moved and has_ball_stopped give opposite answers for the white
\* balls of temp and current_shot, so on a tick where has_shot_started returns
\* True, has_shot_finished is called on the same two snapshots and returns
\* False, a shot is in progress after the tick, last_shot is left as it was and
\* no pot is returned.
C20_NoStartAndFinishTogether ==
    [][/\ (OnTick /\ HasWhite(temp') /\ HasWhite(CurAtCall)) =>
              has_ball_moved(temp'.white[1].keypoint, CurAtCall.white[1].keypoint)
                  # has_ball_stopped(temp'.white[1].keypoint, CurAtCall.white[1].keypoint)
       /\ started' = "true" =>
              /\ finished' = "false"
              /\ shot_in_progess'
              /\ last_shot' = LastAtCall
              /\ ball_potted' = None /\ pot_count' = 0]_vars

\* a shot has just started on a tick on which the red ball of last_shot was
\* not seen any more: the shot is in progress and nothing is returned
C20_Witness ==
    /\ started = "true" /\ finished = "false"
    /\ shot_in_progess
    /\ Len(last_shot.colours["RED"]) = 1
    /\ Len(temp.colours["RED"]) = 0
    /\ ball_potted = None /\ pot_count = 0

-----------------------------------------------------------------------------
(* The tracker over two shots, with the pots reported so far *)

\* process_image is called at most MaxTrackedFrames times when pots are tracked
MaxTrackedFrames == 21

\* where the white ball is seen when pots are tracked
TrackedWhiteXs == {100, 140}

\* the frames with one white ball, at either place, and any of the red balls
TrackedFrames ==
    {f \in Frames :
        /\ \E w \in TrackedWhiteXs : Ball(w) \in {f.blobs[i] : i \in 1..Len(f.blobs)}
        /\ \A i \in 1..Len(f.blobs) :
               \/ f.blobs[i].pt[1] \in RedXs
               \/ /\ f.blobs[i].pt[1] \in TrackedWhiteXs
                  /\ \A j \in 1..Len(f.blobs) : f.blobs[j].pt[1] \in TrackedWhiteXs => j = i}

\* the colours reported potted by an earlier call whose count in temp has been
\* the same on every sampling tick since
StillReported == {c \in reported : Len(temp'.colours[c]) = Len(temp.colours[c])}

\* a call of process_image, after which the colour it returns is remembered
process_image_tracked(frame) ==
    /\ image_counter < MaxTrackedFrames
    /\ process_image(frame)
    /\ reported' = StillReported \cup (IF ball_potted' # None THEN {ball_potted'} ELSE {})
    /\ UNCHANGED call_input

NextTracked == \E frame \in TrackedFrames : process_image_tracked(frame)

SpecTracked == Init /\ [][NextTracked]_vars

-----------------------------------------------------------------------------
(* C19 *)

\* C19: each decrease of a colour's count is reported as a pot at most once: a
\* colour that an earlier shot finish reported, and whose count in temp has
\* been the same on every sampling tick since, is not reported again.
C19_PotReportedOnce ==
    [][ball_potted' # None => ball_potted' \notin StillReported]_vars

-----------------------------------------------------------------------------
(* C21 *)

\* the tick being made and the sampling tick before it both see a white ball,
\* with the same nonzero WHITE count; temp still holds what the tick before saw
WhiteSeenOnBothTicks ==
    /\ OnTick /\ image_counter > 0
    /\ WhiteCount(temp') # 0
    /\ WhiteCount(temp') = WhiteCount(temp)
    /\ HasWhite(temp') /\ HasWhite(temp)

\* C21: when a shot is in progress and two consecutive sampling ticks see the
\* white ball with the same nonzero count and at most 0.1 apart, the shot has
\* finished after the second tick; when no shot is in progress and they see it
\* more than 0.1 apart, a shot is in progress after the second tick.
C21_LifecycleResponse ==
    [][WhiteSeenOnBothTicks =>
          /\ (shot_in_progess /\ ~WhiteFartherThanTenth(temp', temp)) =>
                 (finished' = "true" /\ ~shot_in_progess')
          /\ (~shot_in_progess /\ WhiteFartherThanTenth(temp', temp)) =>
                 (started' = "true" /\ shot_in_progess')]_vars

\* a shot has just finished on a tick that saw the one white ball exactly 0.1
\* away from where the tick before saw it
C21_Witness ==
    /\ finished = "true" /\ ~shot_in_progess
    /\ WhiteCount(temp) = 1 /\ WhiteCount(last_shot) = 1
    /\ temp.white[1].keypoint.pt = <<102, 100>>
    /\ last_shot.white[1].keypoint.pt = <<100, 100>>

-----------------------------------------------------------------------------
(* C22 *)

\* the snapshot has the colours of the ball set and, for each, the same balls
HoldsBalls(snapshot, balls) ==
    /\ DOMAIN snapshot.colours = DOMAIN balls
    /\ \A c \in DOMAIN balls : snapshot.colours[c] = balls[c]

\* C22: after the first process_image call on a fresh tracker, whatever balls
\* were detected, last_shot, current_shot and temp all hold the ball set
\* detected in that frame, no shot is in progress, and the call has returned
\* no potted colour and pot count 0.
C22_FirstCall ==
    image_counter = 1 =>
        /\ phase = "detect" /\ FreshlyDetected(keypoints)
        /\ HoldsBalls(last_shot, keypoints)
        /\ HoldsBalls(cur_shot, keypoints)
        /\ HoldsBalls(temp, keypoints)
        /\ started = "false" /\ finished = "none"
        /\ ~shot_in_progess
        /\ ball_potted = None /\ pot_count = 0

\* the first call has detected two white balls and a red one
C22_Witness ==
    /\ image_counter = 1
    /\ Len(keypoints["WHITE"]) = 2 /\ Len(keypoints["RED"]) = 1
    /\ temp.colours["WHITE"] = <<Ball(100), Ball(102)>>
    /\ last_shot.colours["RED"] = <<Ball(104)>>
    /\ ~shot_in_progess /\ ball_potted = None

-----------------------------------------------------------------------------
(* C23 *)

\* the place in scanning order of the slot the blob takes in the ball set, 0
\* when no ball of the set is within 0.3 of it
SlotTaken(balls, blob) ==
    LET slots == Slots(balls, 1)
        near == {n \in 1..Len(slots) :
                    ~FartherThanThreeTenths(blob, balls[slots[n][1]][slots[n][2]])}
    IN IF near = {} THEN 0 ELSE CHOOSE n \in near : \A m \in near : n <= m

\* the slot the k-th observed blob takes, the blobs before it having been matched
SlotOfBlob(balls, blobs, k) ==
    SlotTaken(AfterBlobs(balls, SubSeq(blobs, 1, k - 1), 1), blobs[k])

\* C23: within one update_balls call the matching is one-to-one: two different
\* observed blobs never overwrite the same known ball slot.
C23_OneToOne ==
    phase = "update" =>
        \A j, k \in 1..Len(call_input.cur_balls) :
            (/\ j < k
             /\ call_input.cur_balls[j] # call_input.cur_balls[k]
             /\ SlotOfBlob(call_input.balls, call_input.cur_balls, j) # 0)
                => SlotOfBlob(call_input.balls, call_input.cur_balls, k)
                       # SlotOfBlob(call_input.balls, call_input.cur_balls, j)

====
